---- MODULE Spec2Model ----
(***************************************************************************)
(* Model of to_do_overs/app_functions/to_do_overs_data.py: the session     *)
(* object ToDoOversData, the two persisted tables it writes (Users, Tags)  *)
(* and the remote API it calls.  The remote API is an environment: every   *)
(* call draws its status code and its JSON body from small sets.           *)
(***************************************************************************)
EXTENDS Integers, Sequences, FiniteSets, TLC

\* ------------------------------------------------------------------ bounds
MaxRemoteLen == 2       \* longest tag list the remote returns
MaxDays == 1            \* largest task_days the caller sets
MaxNow == 1             \* datetime.now() is drawn from 0..MaxNow (in days)

\* ------------------------------------------------------------ input domains
UserIds == {"u1", "u2"}
UserNames == {"alice", "bob"}     \* data.username of the password login
ProfileNames == {"alice"}         \* data.profile.name of the token login
ApiTokens == {"k1", "k2"}         \* data.apiToken of the password login
FormTokens == {"k1"}              \* the token the caller enters for a token login
Passwords == {"pw"}
TaskIds == {"task1"}
TaskNames == {"chore"}
Priorities == {"1", "2"}
Notes == {"", "weekly"}
TagChoices == {<<>>, <<"1">>}      \* the tag ids the caller ticks for a task
StatusCodes == {200, 201, 401}
\* Tag ids are ASCII strings (UUIDs in practice) and tag names any text,
\* both as sequences of code points.  The remote knows tag "1" named "h" and
\* tag "2" named "h" or, renamed, U+00E9 (e acute).
RemoteTags ==
    {[id |-> <<49>>, name |-> <<104>>],
     [id |-> <<50>>, name |-> <<104>>],
     [id |-> <<50>>, name |-> <<233>>]}

SeqsUpTo(S, n) == UNION {[1..k -> S] : k \in 0..n}

RemoteTagLists == SeqsUpTo(RemoteTags, MaxRemoteLen)

\* --------------------------------------------------------------- conversions
\* ASCII code of one lower-case hexadecimal digit.
HexDigit(d) == IF d < 10 THEN 48 + d ELSE 87 + d

\* unicode.encode('unicode_escape') of one code point (CPython 2).
EscapeChar(c) ==
    IF c = 92 THEN <<92, 92>>
    ELSE IF c = 9 THEN <<92, 116>>
    ELSE IF c = 10 THEN <<92, 110>>
    ELSE IF c = 13 THEN <<92, 114>>
    ELSE IF c >= 32 /\ c < 127 THEN <<c>>
    ELSE IF c < 256 THEN <<92, 120, HexDigit(c \div 16), HexDigit(c % 16)>>
    ELSE IF c < 65536
         THEN <<92, 117, HexDigit(c \div 4096), HexDigit((c \div 256) % 16),
                HexDigit((c \div 16) % 16), HexDigit(c % 16)>>
    ELSE <<92, 85, 48, 48, HexDigit((c \div 1048576) % 16),
           HexDigit((c \div 65536) % 16), HexDigit((c \div 4096) % 16),
           HexDigit((c \div 256) % 16), HexDigit((c \div 16) % 16),
           HexDigit(c % 16)>>

RECURSIVE UnicodeEscape(_)
UnicodeEscape(s) ==
    IF s = <<>> THEN <<>> ELSE EscapeChar(Head(s)) \o UnicodeEscape(Tail(s))

\* .encode('utf-8') of one code point.
Utf8Char(c) ==
    IF c < 128 THEN <<c>>
    ELSE IF c < 2048 THEN <<192 + (c \div 64), 128 + (c % 64)>>
    ELSE IF c < 65536
         THEN <<224 + (c \div 4096), 128 + ((c \div 64) % 64), 128 + (c % 64)>>
    ELSE <<240 + (c \div 262144), 128 + ((c \div 4096) % 64),
           128 + ((c \div 64) % 64), 128 + (c % 64)>>

RECURSIVE Utf8Encode(_)
Utf8Encode(s) ==
    IF s = <<>> THEN <<>> ELSE Utf8Char(Head(s)) \o Utf8Encode(Tail(s))

\* tag_text as the code stores it: unicode_escape, then utf-8.
TagTextMutant(name) == Utf8Encode(name)
TagText(name) == Utf8Encode(UnicodeEscape(name))

\* The credential codec (cipher_functions): a ciphertext wraps its plaintext.
EncryptText(plain) == <<"enc", plain>>

IsCiphertext(c) == Len(c) = 2 /\ c[1] = "enc"

\* decrypt_text: the plaintext of a ciphertext; anything else (the empty
\* api_token of a fresh session) cannot be decrypted.
DecryptText(c) == IF IsCiphertext(c) THEN c[2] ELSE "DecryptionError"

\* datetime as a count of days; isoformat() renders it as a string.
IsoFormat(t) == <<"iso", t>>

\* ----------------------------------------------------------------- state
VARIABLES
    self,       \* the ToDoOversData session object
    Users,      \* rows of the Users table
    Tags,       \* rows of the Tags table
    last        \* the call made last: its inputs, its request, its result

vars == <<self, Users, Tags, last>>

NoToken == <<>>

InitSelf ==
    [username |-> "", hab_user_id |-> "", api_token |-> NoToken,
     logged_in |-> FALSE, tags |-> <<>>, task_name |-> "", task_days |-> 0,
     task_delay |-> 0, task_id |-> "", priority |-> "", notes |-> "",
     return_code |-> 0]

NoRequest == [method |-> "NONE"]

NoCall ==
    [op |-> "__init__", status |-> 0, ret |-> "", data |-> <<>>,
     req |-> NoRequest, now |-> 0, after |-> "", base |-> {}, deleted |-> {},
     pre_task_id |-> ""]

Init ==
    /\ self = InitSelf
    /\ Users = {}
    /\ Tags = {}
    /\ last = NoCall

\* ------------------------------------------------------------ store helpers
UserRow(uid, key, name) == [user_id |-> uid, api_key |-> key, username |-> name]

\* Users.objects.update_or_create(user_id=uid, defaults={api_key, username})
UsersCreateAlways(users, uid, key, name) == users \cup {UserRow(uid, key, name)}
UsersUpdateOrCreate(users, uid, key, name) ==
    IF \E r \in users : r.user_id = uid
    THEN {IF r.user_id = uid THEN UserRow(uid, key, name) ELSE r : r \in users}
    ELSE users \cup {UserRow(uid, key, name)}

TagRow(id, owner, text) == [tag_id |-> id, tag_owner |-> owner, tag_text |-> text]

\* Tags.objects.update_or_create(tag_id=id, defaults={tag_owner, tag_text})
TagsUpdateOrCreate(tags, id, owner, text) ==
    IF \E r \in tags : r.tag_id = id
    THEN {IF r.tag_id = id THEN TagRow(id, owner, text) ELSE r : r \in tags}
    ELSE tags \cup {TagRow(id, owner, text)}

\* Tags.objects.filter(tag_id=id).delete()
TagsDeleteMutant(tags, id) == {r \in tags : r.tag_id = id}
TagsDelete(tags, id) == {r \in tags : r.tag_id # id}

\* Tags.objects.filter(tag_owner=user), then the loop collecting the tag ids.
CurrentTagIdsMutant(tags, uid) == {r.tag_id : r \in tags}
CurrentTagIds(tags, uid) == {r.tag_id : r \in {t \in tags : t.tag_owner = uid}}


\* ------------------------------------------------------ tag reconciliation
\* if tag_json['id'] in current_tag_ids: current_tag_ids.remove(tag_json['id'])
MarkSeenMutant(cur, id) == cur
MarkSeen(cur, id) == cur \ {id}

\* The add/update loop over the first k entries of the remote list: the table
\* and what is left of current_tag_ids after it.
RECURSIVE UpsertPass(_, _, _, _, _)
UpsertPass(tags, cur, data, uid, k) ==
    IF k = 0 THEN [tags |-> tags, cur |-> cur]
    ELSE LET p == UpsertPass(tags, cur, data, uid, k - 1)
             e == data[k]
         IN  [tags |-> TagsUpdateOrCreate(p.tags, Utf8Encode(e.id), uid,
                                          TagText(e.name)),
              cur |-> MarkSeen(p.cur, e.id)]

\* The loop deleting the tags of `ids`, one filter(...).delete() each.
RECURSIVE DeletePass(_, _)
DeletePass(tags, ids) ==
    IF ids = {} THEN tags
    ELSE LET id == CHOOSE x \in ids : TRUE
         IN  DeletePass(TagsDelete(tags, id), ids \ {id})

\* The whole reconciliation of get_user_tags.
ReconcileMutant(tags, data, uid) ==
    UpsertPass(tags, CurrentTagIds(tags, uid), data, uid, Len(data)).tags
Reconcile(tags, data, uid) ==
    LET p == UpsertPass(tags, CurrentTagIds(tags, uid), data, uid, Len(data))
    IN  DeletePass(p.tags, p.cur)

\* The reconciliation stopped early: after k upserts, and, when all upserts
\* were made, after deleting only the leftover tags in `done`.
ReconcilePrefix(tags, data, uid, k, done) ==
    LET p == UpsertPass(tags, CurrentTagIds(tags, uid), data, uid, k)
    IN  DeletePass(p.tags, done)

Leftover(tags, data, uid) ==
    UpsertPass(tags, CurrentTagIds(tags, uid), data, uid, Len(data)).cur

\* Users.objects.get(user_id=...): the row, or the exception it raises.
UsersGet(users, uid) ==
    LET m == {r \in users : r.user_id = uid}
    IN  IF m = {} THEN "DoesNotExist"
        ELSE IF Cardinality(m) > 1 THEN "MultipleObjectsReturned"
        ELSE "ok"

\* ------------------------------------------------------- status predicates
\* if req.status_code == 200  (login, login_api_key)
LoginOkMutant(status) == status < 400
LoginOk(status) == status = 200

\* if req.status_code == 201  (create_task)
CreateOkMutant(status) == status = 200
CreateOk(status) == status = 201

\* if req.status_code == 200  (edit_task)
EditOkMutant(status) == status = 201
EditOk(status) == status = 200

\* if req.status_code == 200  (get_user_tags)
TagsOk(status) == status = 200

\* if req_json['data']
DataTruthyMutant(data) == TRUE
DataTruthy(data) == data # <<>>

\* if int(self.task_days) > 0
HasDueDateMutant(days) == days >= 0
HasDueDate(days) == days > 0

\* ---------------------------------------------------------------- requests
AuthHeaders(uid, key) == [x_api_user |-> uid, x_api_key |-> key]

\* The data of the POST of create_task.
CreateData(s, now) ==
    IF HasDueDate(s.task_days)
    THEN [text |-> s.task_name, type |-> "todo", notes |-> s.notes,
          date |-> IsoFormat(now + s.task_days), priority |-> s.priority,
          tags |-> s.tags]
    ELSE [text |-> s.task_name, type |-> "todo", notes |-> s.notes,
          priority |-> s.priority, tags |-> s.tags]

\* The data of the PUT of edit_task.
EditData(s, now) ==
    IF HasDueDate(s.task_days)
    THEN [text |-> s.task_name, notes |-> s.notes,
          date |-> IsoFormat(now + s.task_days), priority |-> s.priority,
          tags |-> s.tags]
    ELSE [text |-> s.task_name, notes |-> s.notes,
          priority |-> s.priority, tags |-> s.tags]

EditUrl(task_id) == "https://habitica.com/api/v3/tasks/" \o task_id

Call(op, status, ret, req) ==
    [NoCall EXCEPT !.op = op, !.status = status, !.ret = ret, !.req = req,
                   !.pre_task_id = self.task_id]

\* A call that raised before it sent anything.
Raised(op, exc) ==
    /\ last' = Call(op, 0, exc, NoRequest)
    /\ UNCHANGED <<self, Users, Tags>>

\* ---------------------------------------------------------------- actions
\* A new session object over the same database.
NewSession ==
    /\ self' = InitSelf
    /\ last' = NoCall
    /\ UNCHANGED <<Users, Tags>>

\* The caller fills in the login form's username.
SetUsername(name) ==
    /\ self' = [self EXCEPT !.username = name]
    /\ last' = Call("set", 0, "", NoRequest)
    /\ UNCHANGED <<Users, Tags>>

\* The caller fills in a user id and an (encrypted) API token.
SetApiCredentials(uid, token) ==
    /\ self' = [self EXCEPT !.hab_user_id = uid,
                            !.api_token = EncryptText(token)]
    /\ last' = Call("set", 0, "", NoRequest)
    /\ UNCHANGED <<Users, Tags>>

\* The caller fills in the task being composed.
SetTask(name, days, priority, notes, tags) ==
    /\ self' = [self EXCEPT !.task_name = name, !.task_days = days,
                            !.priority = priority, !.notes = notes,
                            !.tags = tags]
    /\ last' = Call("set", 0, "", NoRequest)
    /\ UNCHANGED <<Users, Tags>>

Login(password, status, resp) ==
    LET req == [method |-> "POST",
                url |-> "https://habitica.com/api/v3/user/auth/local/login",
                data |-> [username |-> self.username, password |-> password]]
    IN  IF LoginOk(status)
        THEN /\ self' = [self EXCEPT !.return_code = status,
                                     !.hab_user_id = resp.id,
                                     !.api_token = EncryptText(resp.apiToken),
                                     !.username = resp.username,
                                     !.logged_in = TRUE]
             /\ Users' = UsersUpdateOrCreate(Users, resp.id,
                             EncryptText(resp.apiToken), resp.username)
             /\ last' = Call("login", status, "True", req)
             /\ UNCHANGED Tags
        ELSE /\ self' = [self EXCEPT !.return_code = status]
             /\ last' = Call("login", status, "False", req)
             /\ UNCHANGED <<Users, Tags>>

LoginApiKey(status, name) ==
    LET key == DecryptText(self.api_token)
        req == [method |-> "GET", url |-> "https://habitica.com/api/v3/user",
                headers |-> AuthHeaders(self.hab_user_id, key)]
        after == IF last.op = "login" /\ last.ret = "True" THEN "relogin" ELSE ""
    IN  IF key = "DecryptionError" THEN Raised("login_api_key", key)
        ELSE IF LoginOk(status)
        THEN /\ self' = [self EXCEPT !.return_code = status,
                                     !.username = name,
                                     !.logged_in = TRUE]
             /\ Users' = UsersUpdateOrCreate(Users, self.hab_user_id,
                             self.api_token, name)
             /\ last' = [Call("login_api_key", status, "True", req)
                            EXCEPT !.after = after]
             /\ UNCHANGED Tags
        ELSE /\ self' = [self EXCEPT !.return_code = status]
             /\ last' = Call("login_api_key", status, "False", req)
             /\ UNCHANGED <<Users, Tags>>

CreateTask(status, id, now) ==
    LET key == DecryptText(self.api_token)
        req == [method |-> "POST",
                url |-> "https://habitica.com/api/v3/tasks/user",
                headers |-> AuthHeaders(self.hab_user_id, key),
                data |-> CreateData(self, now)]
    IN  IF key = "DecryptionError" THEN Raised("create_task", key)
        ELSE /\ self' = [self EXCEPT !.return_code = status,
                            !.task_id = IF CreateOk(status) THEN id ELSE @]
             /\ last' = [Call("create_task", status,
                              IF CreateOk(status) THEN "True" ELSE "False", req)
                            EXCEPT !.now = now]
             /\ UNCHANGED <<Users, Tags>>

EditTask(status, id, now) ==
    LET key == DecryptText(self.api_token)
        req == [method |-> "PUT", url |-> EditUrl(self.task_id),
                headers |-> AuthHeaders(self.hab_user_id, key),
                data |-> EditData(self, now)]
    IN  IF key = "DecryptionError" THEN Raised("edit_task", key)
        ELSE /\ self' = [self EXCEPT !.return_code = status,
                            !.task_id = IF EditOk(status) THEN id ELSE @]
             /\ last' = [Call("edit_task", status,
                              IF EditOk(status) THEN "True" ELSE "False", req)
                            EXCEPT !.now = now]
             /\ UNCHANGED <<Users, Tags>>

\* What the call is to the one before it: the same successful sync again, or
\* the retry of a sync that was cut short.
After(data) ==
    IF last.op = "get_user_tags" /\ last.data = data /\ last.ret = "data"
    THEN "repeat"
    ELSE IF last.op = "get_user_tags" /\ last.data = data
            /\ last.ret = "Interrupted"
    THEN "retry"
    ELSE ""

TagsReq ==
    [method |-> "GET", url |-> "https://habitica.com/api/v3/tags",
     headers |-> AuthHeaders(self.hab_user_id, DecryptText(self.api_token))]

\* The record of a get_user_tags call; `base` is the table as it was before
\* the sync that this call retries.
TagsCall(status, ret, data) ==
    [Call("get_user_tags", status, ret, TagsReq) EXCEPT
        !.data = data, !.after = After(data),
        !.base = IF After(data) = "retry" THEN last.base ELSE {}]

GetUserTags(status, data) ==
    LET uid == self.hab_user_id
    IN  IF DecryptText(self.api_token) = "DecryptionError"
        THEN Raised("get_user_tags", "DecryptionError")
        ELSE
        /\ self' = [self EXCEPT !.return_code = status]
        /\ UNCHANGED Users
        /\ IF TagsOk(status)
           THEN IF UsersGet(Users, uid) # "ok"
                THEN /\ last' = TagsCall(status, UsersGet(Users, uid), data)
                     /\ UNCHANGED Tags
                ELSE IF DataTruthy(data)
                THEN /\ Tags' = Reconcile(Tags, data, uid)
                     /\ last' = [TagsCall(status, "data", data) EXCEPT
                                    !.deleted = Leftover(Tags, data, uid)]
                ELSE /\ last' = TagsCall(status, "False", data)
                     /\ UNCHANGED Tags
           ELSE /\ last' = TagsCall(status, "False", data)
                /\ UNCHANGED Tags

\* get_user_tags cut short inside the reconciliation (the process dies, the
\* database raises): k upserts made, and of the deletions only those of `done`.
GetUserTagsInterrupted(data) ==
    LET uid == self.hab_user_id
    IN  /\ DecryptText(self.api_token) # "DecryptionError"
        /\ UsersGet(Users, uid) = "ok"
        /\ DataTruthy(data)
        /\ \E k \in 0..Len(data), done \in SUBSET Leftover(Tags, data, uid) :
              /\ k < Len(data) => done = {}
              /\ k < Len(data) \/ done # Leftover(Tags, data, uid)
              /\ Tags' = ReconcilePrefix(Tags, data, uid, k, done)
              /\ last' = [TagsCall(200, "Interrupted", data) EXCEPT
                             !.after = "", !.base = Tags, !.deleted = done]
        /\ self' = [self EXCEPT !.return_code = 200]
        /\ UNCHANGED Users

\* The body of a response: a tag list comes with a 200 only.
TagBodies(status) == IF status = 200 THEN RemoteTagLists ELSE {<<>>}

LoginResponses == [id : UserIds, apiToken : ApiTokens, username : UserNames]

\* The caller's writes and the session's start.
Session ==
    \/ NewSession
    \/ \E uid \in UserIds, token \in FormTokens : SetApiCredentials(uid, token)

NextLogin ==
    \/ Session
    \/ \E name \in UserNames : SetUsername(name)
    \/ \E password \in Passwords, status \in StatusCodes, resp \in LoginResponses :
          Login(password, status, resp)
    \/ \E status \in StatusCodes, name \in ProfileNames :
          LoginApiKey(status, name)

NextTask ==
    \/ Session
    \/ \E name \in TaskNames, days \in 0..MaxDays, priority \in Priorities,
          notes \in Notes, tags \in TagChoices :
          SetTask(name, days, priority, notes, tags)
    \/ \E status \in StatusCodes, name \in ProfileNames :
          LoginApiKey(status, name)
    \/ \E status \in StatusCodes, id \in TaskIds, now \in 0..MaxNow :
          CreateTask(status, id, now)
    \/ \E status \in StatusCodes, id \in TaskIds, now \in 0..MaxNow :
          EditTask(status, id, now)

NextTags ==
    \/ Session
    \/ \E status \in StatusCodes, name \in ProfileNames :
          LoginApiKey(status, name)
    \/ \E status \in StatusCodes :
          \E data \in TagBodies(status) : GetUserTags(status, data)
    \/ \E data \in RemoteTagLists : GetUserTagsInterrupted(data)

\* The token login and the three methods that need a logged-in session, on a
\* task left as constructed.  NextLogin adds the password login, NextTask the
\* caller's task fields, NextTags the get_user_tags that is cut short.
Next ==
    \/ Session
    \/ \E status \in StatusCodes, name \in ProfileNames :
          LoginApiKey(status, name)
    \/ \E status \in StatusCodes, id \in TaskIds, now \in 0..MaxNow :
          CreateTask(status, id, now)
    \/ \E status \in StatusCodes, id \in TaskIds, now \in 0..MaxNow :
          EditTask(status, id, now)
    \/ \E status \in StatusCodes :
          \E data \in TagBodies(status) : GetUserTags(status, data)

Spec == Init /\ [][Next]_vars

SpecLogin == Init /\ [][NextLogin]_vars

SpecTask == Init /\ [][NextTask]_vars

SpecTags == Init /\ [][NextTags]_vars

\* ------------------------------------------------------------ properties
RemoteIds(data) == {data[i].id : i \in 1..Len(data)}

\* The name the last entry of `id` in the remote list gives it.
LastName(data, id) ==
    LET at == {i \in 1..Len(data) : data[i].id = id}
        m == CHOOSE i \in at : \A j \in at : j <= i
    IN  data[m].name

OwnedBy(tags, uid) == {r \in tags : r.tag_owner = uid}

OwnedByOthers(tags, uid) == {r \in tags : r.tag_owner # uid}

Synced == last.op = "get_user_tags" /\ last.ret = "data"

Requested(call) == call.req.method # "NONE"

\* C1 as claimed: after a successful get_user_tags the session user's tag ids are
\* exactly the remote ids, and every remote tag is stored under its remote name.
C1_RemoteNameAsText ==
    Synced =>
        /\ {r.tag_id : r \in OwnedBy(Tags, self.hab_user_id)} = RemoteIds(last.data)
        /\ \A i \in 1..Len(last.data) :
              \E r \in OwnedBy(Tags, self.hab_user_id) :
                  r.tag_id = last.data[i].id /\ r.tag_text = last.data[i].name

\* C1 as amended: after a successful get_user_tags the session user's tag ids are
\* exactly the remote ids (stale tags deleted, missing ones added), and each is
\* stored with the unicode_escape form of the name its last entry in the remote
\* list gives it.
C1_SyncedTagSet ==
    Synced =>
        /\ {r.tag_id : r \in OwnedBy(Tags, self.hab_user_id)} = RemoteIds(last.data)
        /\ \A id \in RemoteIds(last.data) :
              \E r \in OwnedBy(Tags, self.hab_user_id) :
                  /\ r.tag_id = id
                  /\ r.tag_text = UnicodeEscape(LastName(last.data, id))
        /\ \A r \in Tags : r.tag_id \notin last.deleted

\* A sync that deleted a stale tag and stored a tag whose name is not ASCII.
C1_Witness ==
    /\ Synced
    /\ last.deleted # {}
    /\ \E i \in 1..Len(last.data) : EscapeChar(last.data[i].name[1]) # <<last.data[i].name[1]>>
    /\ OwnedBy(Tags, self.hab_user_id) # {}

SyncFailed(call) ==
    /\ call.op = "get_user_tags"
    /\ Requested(call)
    /\ call.ret # "Interrupted"
    /\ call.status # 200 \/ call.data = <<>>

C3_Idempotent ==
    [][(/\ last.op = "get_user_tags" /\ last.ret # "Interrupted"
        /\ last'.op = "get_user_tags" /\ last'.ret # "Interrupted"
        /\ last'.status = last.status
        /\ last'.data = last.data) => Tags' = Tags]_vars

\* The second of two successful runs on the same list of two tags.
C3_Witness ==
    /\ Synced
    /\ last.after = "repeat"
    /\ Cardinality(RemoteIds(last.data)) = 2

LoginRejected(call) ==
    /\ call.op \in {"login", "login_api_key"}
    /\ Requested(call)
    /\ call.status # 200

\* C5 as claimed: a login or login_api_key that got a non-200 status returns
\* False, leaves logged_in false and writes no Users row.
C5_FailureLogsOut ==
    [][LoginRejected(last') =>
          /\ last'.ret = "False"
          /\ ~self'.logged_in
          /\ Users' = Users]_vars

\* C5 as amended: such a call returns False, writes no Users row and leaves
\* logged_in as it was (false only if the session had not logged in before).
C5_FailureKeepsLogin ==
    [][LoginRejected(last') =>
          /\ last'.ret = "False"
          /\ self'.logged_in = self.logged_in
          /\ Users' = Users]_vars

\* A rejected login on a session that never logged in, with users stored.
C5_Witness ==
    /\ LoginRejected(last)
    /\ ~self.logged_in
    /\ Users # {}

\* C6: the Users table never holds two rows of one user_id, and after a
\* successful login the single row of the session's user carries the
\* session's username and encrypted token.
C6_OneUserRecord ==
    /\ \A r1 \in Users, r2 \in Users : r1.user_id = r2.user_id => r1 = r2
    /\ (last.op \in {"login", "login_api_key"} /\ last.ret = "True") =>
          \E r \in Users :
              /\ r.user_id = self.hab_user_id
              /\ r.username = self.username
              /\ r.api_key = self.api_token

\* A successful token login right after a successful password login.
C6_Witness ==
    /\ last.op = "login_api_key"
    /\ last.after = "relogin"
    /\ last.ret = "True"
    /\ Cardinality({r \in Users : r.user_id = self.hab_user_id}) = 1

\* C7 as claimed: edit_task with an empty task_id fails with an error, sends
\* no PUT and leaves return_code as it was.
C7_EmptyIdRejected ==
    [][(last'.op = "edit_task" /\ self.task_id = "") =>
          /\ last'.ret \notin {"True", "False"}
          /\ ~Requested(last')
          /\ self'.return_code = self.return_code]_vars

\* C7 as amended: edit_task with an empty task_id is not rejected: when the
\* token decrypts it sends a PUT to the tasks URL with nothing after the
\* slash, records the status, and returns True exactly on a 200.
C7_EmptyIdSent ==
    (last.op = "edit_task" /\ last.pre_task_id = ""
        /\ last.ret # "DecryptionError") =>
        /\ last.req.method = "PUT"
        /\ last.req.url = "https://habitica.com/api/v3/tasks/"
        /\ self.return_code = last.status
        /\ last.ret = IF last.status = 200 THEN "True" ELSE "False"

\* An edit_task with an empty task_id that the remote rejected.
C7_Witness ==
    /\ last.op = "edit_task"
    /\ last.pre_task_id = ""
    /\ Requested(last)
    /\ last.ret = "False"

GuardedOps == {"create_task", "edit_task", "get_user_tags"}

\* C8 as claimed: create_task, edit_task and get_user_tags on a session that
\* is not logged in fail with an error, send no request and change no row.
C8_AnonymousRejected ==
    [][(last'.op \in GuardedOps /\ ~self.logged_in) =>
          /\ last'.ret \notin {"True", "False", "data"}
          /\ ~Requested(last')
          /\ Users' = Users
          /\ Tags' = Tags]_vars

\* C8 as amended: logged_in is a boolean that none of the three reads: on a
\* session that is not logged in, when the token decrypts, each sends its
\* request, records the status and returns as it would when logged in;
\* create_task and edit_task change no row, get_user_tags none of Users.
C8_AnonymousSent ==
    [][(last'.op \in GuardedOps /\ ~self.logged_in
            /\ last'.ret \notin {"DecryptionError", "Interrupted"}) =>
          /\ self'.logged_in \in BOOLEAN /\ ~self'.logged_in
          /\ Requested(last')
          /\ self'.return_code = last'.status
          /\ Users' = Users
          /\ last'.op = "create_task" =>
                /\ Tags' = Tags
                /\ last'.ret = IF last'.status = 201 THEN "True" ELSE "False"
          /\ last'.op = "edit_task" =>
                /\ Tags' = Tags
                /\ last'.ret = IF last'.status = 200 THEN "True" ELSE "False"
          /\ last'.op = "get_user_tags" =>
                /\ last'.ret \in {"data", "False", "DoesNotExist"}
                /\ last'.ret # "data" => Tags' = Tags]_vars

\* A get_user_tags that rewrote the tags of a session that is not logged in.
C8_Witness ==
    /\ Synced
    /\ ~self.logged_in
    /\ OwnedBy(Tags, self.hab_user_id) # {}

TaskCall == last.op \in {"create_task", "edit_task"} /\ Requested(last)

\* C9: the request of create_task and edit_task has a date field exactly when
\* task_days > 0, its value the call's now plus task_days days; text, notes,
\* priority and tags (and type, for create_task) are there in both cases.
C9_DueDate ==
    TaskCall =>
        LET d == last.req.data
            fixed == IF last.op = "create_task"
                     THEN {"text", "type", "notes", "priority", "tags"}
                     ELSE {"text", "notes", "priority", "tags"}
        IN  /\ "date" \in DOMAIN d <=> self.task_days > 0
            /\ "date" \in DOMAIN d =>
                  d.date = IsoFormat(last.now + self.task_days)
            /\ DOMAIN d \ {"date"} = fixed
            /\ d.text = self.task_name
            /\ d.notes = self.notes
            /\ d.priority = self.priority
            /\ d.tags = self.tags
            /\ last.op = "create_task" => d.type = "todo"

\* An edit_task with a due date, made later than day 0.
C9_Witness ==
    /\ TaskCall
    /\ last.op = "edit_task"
    /\ self.task_days > 0
    /\ last.now > 0
    /\ "date" \in DOMAIN last.req.data

\* C10 as claimed: get_user_tags leaves the rows owned by other users as they
\* were, whatever the remote list holds.
C10_OthersUntouched ==
    [][last'.op = "get_user_tags" =>
          OwnedByOthers(Tags', self.hab_user_id)
              = OwnedByOthers(Tags, self.hab_user_id)]_vars

\* C10 as amended: get_user_tags creates no row owned by another user, and
\* changes or deletes such a row only when its tag_id is in the remote list:
\* that row is taken over by the session's user.
C10_OthersOutsideList ==
    [][last'.op = "get_user_tags" =>
          /\ OwnedByOthers(Tags', self.hab_user_id)
                \subseteq OwnedByOthers(Tags, self.hab_user_id)
          /\ \A r \in OwnedByOthers(Tags, self.hab_user_id) :
                r.tag_id \notin RemoteIds(last'.data) => r \in Tags'
          /\ \A r \in OwnedByOthers(Tags, self.hab_user_id) :
                (r.tag_id \in RemoteIds(last'.data) /\ last'.ret = "data") =>
                    \E t \in OwnedBy(Tags', self.hab_user_id) : t.tag_id = r.tag_id]_vars

\* A successful sync next to which another user's tag is still stored.
C10_Witness ==
    /\ Synced
    /\ OwnedBy(Tags, self.hab_user_id) # {}
    /\ OwnedByOthers(Tags, self.hab_user_id) # {}

====
